---- MODULE Spec2Model ----
(***************************************************************************)
(* canvas-works: the CanvasProvider render core (view transform, dirty     *)
(* flag, animation-frame loop, layer and ticker registries), the affine    *)
(* matrix module and the PanZoomControls gesture handlers.                 *)
(*                                                                         *)
(* Numbers are exact rationals [n, d] (d > 0, lowest terms): the model     *)
(* follows the arithmetic of the source over the reals and leaves the      *)
(* rounding of IEEE doubles out.                                           *)
(***************************************************************************)
EXTENDS Integers, Sequences, FiniteSets, TLC

(* ------------------------------ bounds --------------------------------- *)
\* number of API calls / host events in one run
MaxOps == 3
\* ids handed out by idRef (layers and tickers share the counter)
MaxId == 3
\* depth of the drawing context's save stack
MaxStack == 3
\* numerators and denominators of the world matrix that gestures may reach
MaxCoord == 32768

(* --------------------------- exact rationals --------------------------- *)
Abs(i) == IF i < 0 THEN -i ELSE i

RECURSIVE Gcd(_, _)
Gcd(x, y) == IF y = 0 THEN x ELSE Gcd(y, x % y)

Q(n, d) ==
  LET s == IF d < 0 THEN -1 ELSE 1
      g == Gcd(Abs(n), Abs(d))
  IN  [n |-> (s * n) \div g, d |-> (s * d) \div g]

R(i) == [n |-> i, d |-> 1]
RNeg(x) == [n |-> -x.n, d |-> x.d]
\* sums over the least common denominator and products after cancelling, so
\* that intermediate values stay small
RAdd(x, y) ==
  LET g == Gcd(x.d, y.d)
  IN  Q(x.n * (y.d \div g) + y.n * (x.d \div g), (x.d \div g) * y.d)
RSub(x, y) == RAdd(x, RNeg(y))
RMul(x, y) ==
  LET g1 == Gcd(Abs(x.n), y.d)
      g2 == Gcd(Abs(y.n), x.d)
  IN  IF x.n = 0 \/ y.n = 0 THEN [n |-> 0, d |-> 1]
      ELSE [n |-> (x.n \div g1) * (y.n \div g2), d |-> (x.d \div g2) * (y.d \div g1)]
RDiv(x, y) == RMul(x, IF y.n < 0 THEN [n |-> -y.d, d |-> -y.n] ELSE [n |-> y.d, d |-> y.n])
RAbs(x) == [n |-> Abs(x.n), d |-> x.d]
\* the sign of n1/d1 - n2/d2 for non-negative fractions, by integer parts and
\* then the reciprocals of the fractional parts, so that no product is formed
RECURSIVE CmpPos(_, _, _, _)
CmpPos(n1, d1, n2, d2) ==
  LET q1 == n1 \div d1
      q2 == n2 \div d2
      r1 == n1 % d1
      r2 == n2 % d2
  IN  IF q1 # q2 THEN (IF q1 < q2 THEN -1 ELSE 1)
      ELSE IF r1 = 0 /\ r2 = 0 THEN 0
      ELSE IF r1 = 0 THEN -1
      ELSE IF r2 = 0 THEN 1
      ELSE -CmpPos(d1, r1, d2, r2)
RCmp(x, y) ==
  IF x.n < 0 /\ y.n >= 0 THEN -1
  ELSE IF x.n >= 0 /\ y.n < 0 THEN 1
  ELSE IF x.n < 0 THEN CmpPos(-y.n, y.d, -x.n, x.d)
  ELSE CmpPos(x.n, x.d, y.n, y.d)
RLt(x, y) == RCmp(x, y) < 0
RLe(x, y) == RCmp(x, y) <= 0
RMin(x, y) == IF RLe(x, y) THEN x ELSE y
RMax(x, y) == IF RLe(x, y) THEN y ELSE x

\* floor of the square root of a natural number
RECURSIVE ISqrtFrom(_, _)
ISqrtFrom(n, r) == IF (r + 1) * (r + 1) > n THEN r ELSE ISqrtFrom(n, r + 1)
ISqrt(n) == ISqrtFrom(n, 0)

\* Math.hypot: exact on the arguments of the model, whose sums of squares are
\* squares of rationals
hypot(x, y) ==
  IF y.n = 0 THEN RAbs(x)
  ELSE IF x.n = 0 THEN RAbs(y)
  ELSE LET s == RAdd(RMul(x, x), RMul(y, y))
       IN  Q(ISqrt(s.n), ISqrt(s.d))

\* Math.round of a non-negative rational (half rounds up)
RRound(x) == (2 * x.n + x.d) \div (2 * x.d)

(* ------------------------------ matrix.ts ------------------------------ *)
Mx(a, b, c, d, e, f) == [a |-> a, b |-> b, c |-> c, d |-> d, e |-> e, f |-> f]

I == Mx(R(1), R(0), R(0), R(1), R(0), R(0))

mul(m1, m2) ==
  Mx(RAdd(RMul(m1.a, m2.a), RMul(m1.c, m2.b)),
     RAdd(RMul(m1.b, m2.a), RMul(m1.d, m2.b)),
     RAdd(RMul(m1.a, m2.c), RMul(m1.c, m2.d)),
     RAdd(RMul(m1.b, m2.c), RMul(m1.d, m2.d)),
     RAdd(RAdd(RMul(m1.a, m2.e), RMul(m1.c, m2.f)), m1.e),
     RAdd(RAdd(RMul(m1.b, m2.e), RMul(m1.d, m2.f)), m1.f))

\* a translation whose x offset is not linear in tx
translateSquared(tx, ty) == Mx(R(1), R(0), R(0), R(1), RMul(tx, tx), ty)

translate(tx, ty) == Mx(R(1), R(0), R(0), R(1), tx, ty)

scale(sx, sy) == Mx(sx, R(0), R(0), sy, R(0), R(0))

\* scaleAt without the translations about (px, py)
scaleAtOrigin(sx, sy, px, py) == scale(sx, sy)

scaleAt(sx, sy, px, py) ==
  mul(translate(px, py), mul(scale(sx, sy), translate(RNeg(px), RNeg(py))))

\* |det| < 1e-12, computed without forming 10^12 * |n|
Below1e12(x) == Abs(x.n) <= ((x.d - 1) \div 1000000) \div 1000000

det(m) == RSub(RMul(m.a, m.d), RMul(m.b, m.c))

\* |a|, |b|, |c|, |d| <= 1e-7, which makes |det| <= 2e-14 < 1e-12; decided
\* on the entries, before any product
Below1e7(x) == Abs(x.n) <= x.d \div 10000000
TinyLinear(m) == Below1e7(m.a) /\ Below1e7(m.b) /\ Below1e7(m.c) /\ Below1e7(m.d)

\* invert with the sign of b kept
invertSignB(m) ==
  IF TinyLinear(m) \/ Below1e12(det(m)) THEN [null |-> TRUE, m |-> I]
  ELSE LET invDet == RDiv(R(1), det(m))
       IN  [null |-> FALSE,
            m |-> Mx(RMul(m.d, invDet),
                     RMul(m.b, invDet),
                     RMul(RNeg(m.c), invDet),
                     RMul(m.a, invDet),
                     RMul(RSub(RMul(m.c, m.f), RMul(m.d, m.e)), invDet),
                     RMul(RSub(RMul(m.b, m.e), RMul(m.a, m.f)), invDet))]

\* invert: [null |-> TRUE] stands for the null result
invert(m) ==
  IF TinyLinear(m) \/ Below1e12(det(m)) THEN [null |-> TRUE, m |-> I]
  ELSE LET invDet == RDiv(R(1), det(m))
       IN  [null |-> FALSE,
            m |-> Mx(RMul(m.d, invDet),
                     RMul(RNeg(m.b), invDet),
                     RMul(RNeg(m.c), invDet),
                     RMul(m.a, invDet),
                     RMul(RSub(RMul(m.c, m.f), RMul(m.d, m.e)), invDet),
                     RMul(RSub(RMul(m.b, m.e), RMul(m.a, m.f)), invDet))]

apply(m, x, y) ==
  [x |-> RAdd(RAdd(RMul(m.a, x), RMul(m.c, y)), m.e),
   y |-> RAdd(RAdd(RMul(m.b, x), RMul(m.d, y)), m.f)]

\* Math.hypot(m.a, m.b) || 1
getScale(m) ==
  LET h == hypot(m.a, m.b) IN IF h.n = 0 THEN R(1) ELSE h

(* --------------------------- inputs of the model ----------------------- *)
DprSet == {R(1), R(2)}
SizeSet == {[w |-> 300, h |-> 150], [w |-> 800, h |-> 600]}
PanSet == {[dx |-> R(100), dy |-> R(50)], [dx |-> R(-7), dy |-> R(0)]}
ZoomSet == {[cx |-> R(400), cy |-> R(300), k |-> R(2)],
            [cx |-> R(0), cy |-> R(10), k |-> Q(1, 2)]}
\* a quarter turn, and a matrix of determinant 0
WorldSet == {Mx(R(0), R(1), R(-1), R(0), R(5), R(0)),
             Mx(R(3), R(4), R(6), R(8), R(0), R(0))}
RectSet == {[x0 |-> R(-2), y0 |-> R(-1), x1 |-> R(2), y1 |-> R(1)]}
MarginSet == {R(24)}
\* registerLayer options: z, visible, space
LayerSet == {[z |-> 0, visible |-> TRUE, space |-> "screen"],
             [z |-> 0, visible |-> TRUE, space |-> "world"],
             [z |-> 1, visible |-> FALSE, space |-> "world"],
             [z |-> -1, visible |-> TRUE, space |-> "world"]}
TickResults == {"true", "false", "throw"}
DrawResults == {"ok", "xform", "throw", "saveThrow"}

(* ------------------------------- state --------------------------------- *)
VARIABLES
  dpr, size, world,       \* React state of the provider (committed values)
  worldQ,                 \* queued setWorldState updaters, oldest first
  sizeQ, dprQ,            \* value queued by setSize / setDpr
  eff,                    \* passive effects of the last commit not yet run
  envDpr,                 \* globalThis.devicePixelRatio
  layers,                 \* layersRef: Map in insertion order
  sortedLayers,           \* sortedLayersRef
  layersDirty,            \* layersDirtyRef
  tickers,                \* tickersRef: Map in insertion order
  idRef,
  rafPending,             \* a frame callback is requested and has not run
  rafCount,               \* the frame callbacks requested and not yet run
  rafDpr,                 \* dpr closed over by the requested drawFrame
  running,                \* runningRef
  dirty,                  \* dirtyRef
  mats,                   \* cssFromWorld, deviceFromWorld, worldFromCss, worldFromDevice refs
  ctxAvail,               \* ctxRef.current is not null
  canvasWH,               \* canvas.width, canvas.height
  ctxT, ctxStack,         \* the 2d context: current transform and save stack
  fpc, tickIdx, need, drawIdx,   \* position of drawFrame
  frame,                  \* what the current (or last) frame callback did
  boundWorld,             \* world closed over by the bound PanZoomControls handlers
  pointers, pinch, drag,  \* pointersRef, pinchRef and drag of PanZoomControls
  lastOp, ops, c1,        \* history: last step, number of calls, calls since idle
  plotProps,              \* props of the mounted FunctionPlot (<<>> before it mounts)
  cacheRef,               \* cacheRef of FunctionPlot (<<>> for a cache without path)
  didAutoCenterRef,       \* didAutoCenterRef of the grid
  gridDeps,               \* <<>> without a grid, else <<b>>: its effect ran in this flush
  label                   \* the last tick label formatted by TrigonometricalGrid

vars == <<dpr, size, world, worldQ, sizeQ, dprQ, eff, envDpr, layers,
          sortedLayers, layersDirty, tickers, idRef, rafPending, rafDpr,
          running, dirty, mats, ctxAvail, canvasWH, ctxT, ctxStack, fpc,
          tickIdx, need, drawIdx, frame, boundWorld, pointers, pinch,
          drag, lastOp, ops, c1, rafCount, plotProps, cacheRef,
          didAutoCenterRef, gridDeps, label>>

reactVars == <<dpr, size, world, worldQ, sizeQ, dprQ, eff>>
regVars == <<layers, sortedLayers, layersDirty, tickers, idRef>>
ctxVars == <<ctxAvail, canvasWH, ctxT, ctxStack>>
gestureVars == <<boundWorld, pointers, pinch, drag>>
\* state of the components mounted under the provider
kidVars == <<plotProps, cacheRef, didAutoCenterRef, gridDeps, label>>

(* --------------------------- CanvasProvider ---------------------------- *)
Dev(d) == Mx(d, R(0), R(0), d, R(0), R(0))

\* recomputeMatrices with the device matrix behind the public converters
recomputeMatricesDevice(dprValue, worldValue, old) ==
  LET dev == mul(Dev(dprValue), worldValue)
      invDev == invert(dev)
  IN  [cssFromWorld |-> dev,
       deviceFromWorld |-> dev,
       worldFromCss |-> IF invDev.null THEN old.worldFromCss ELSE invDev.m,
       worldFromDevice |-> IF invDev.null THEN old.worldFromDevice ELSE invDev.m]

recomputeMatrices(dprValue, worldValue, old) ==
  LET dev == mul(Dev(dprValue), worldValue)
      invCss == invert(worldValue)
      invDev == invert(dev)
  IN  [cssFromWorld |-> worldValue,
       deviceFromWorld |-> dev,
       worldFromCss |-> IF invCss.null THEN old.worldFromCss ELSE invCss.m,
       worldFromDevice |-> IF invDev.null THEN old.worldFromDevice ELSE invDev.m]

Refs0 == [cssFromWorld |-> I, deviceFromWorld |-> I,
          worldFromCss |-> I, worldFromDevice |-> I]

\* the result of one setWorldState updater applied to prev
Updated(u, prev) == IF u.kind = "mul" THEN mul(u.m, prev) ELSE u.m

\* the world state once every queued updater has run
RECURSIVE FoldWorld(_, _)
FoldWorld(q, w) == IF q = <<>> THEN w ELSE FoldWorld(Tail(q), Updated(Head(q), w))
Intended == FoldWorld(worldQ, world)

\* the refs once the queued updaters have run, each calling recomputeMatrices
\* with the dpr of its closure unless it already ran when it was queued
RECURSIVE FoldRefs(_, _, _)
FoldRefs(q, w, r) ==
  IF q = <<>> THEN r
  ELSE LET u == Head(q)
           nw == Updated(u, w)
       IN  FoldRefs(Tail(q), nw,
                    IF u.done THEN r ELSE recomputeMatrices(u.cdpr, nw, r))

\* a backing store of the logical size, whatever the device pixel ratio
DesiredCss(sz, d) ==
  [w |-> IF sz.w < 1 THEN 1 ELSE sz.w, h |-> IF sz.h < 1 THEN 1 ELSE sz.h]

\* desiredW, desiredH of the backing-store effect
Desired(sz, d) ==
  LET dw == RRound(RMul(R(sz.w), d))
      dh == RRound(RMul(R(sz.h), d))
  IN  [w |-> IF dw < 1 THEN 1 ELSE dw, h |-> IF dh < 1 THEN 1 ELSE dh]

NoEff == [world |-> FALSE, dpr |-> FALSE, size |-> FALSE]
NoFrame == [ticks |-> <<>>, t0 |-> <<>>, dirty0 |-> FALSE, want |-> I,
            drew |-> FALSE, done |-> FALSE, m |-> I, sdpr |-> R(1),
            l0 |-> <<>>, drawn |-> <<>>, gone0 |-> {}]

\* no update of the provider's state is queued
NoneQueued == worldQ = <<>> /\ sizeQ = size /\ dprQ = dpr

\* loop stopped, nothing to draw, nothing queued
Idle ==
  /\ ~running /\ ~rafPending /\ ~dirty /\ tickers = <<>> /\ ctxAvail
  /\ NoneQueued /\ eff = NoEff /\ fpc = "idle"

\* the provider once mounted with the logical size sz (the width and height
\* props, or the 300 x 150 of useState without them); the canvas element
\* starts with a 300 x 150 backing store
InitWith(sz) ==
  /\ envDpr \in DprSet
  /\ dpr = envDpr /\ dprQ = envDpr
  /\ size = sz /\ sizeQ = size
  /\ world = I /\ worldQ = <<>>
  /\ eff = NoEff
  /\ layers = <<>> /\ sortedLayers = <<>> /\ layersDirty = TRUE
  /\ tickers = <<>> /\ idRef = 1
  /\ mats = recomputeMatrices(envDpr, I, Refs0)
  /\ dirty = TRUE
  /\ canvasWH = Desired(size, envDpr)
  /\ running = (canvasWH # [w |-> 300, h |-> 150])
  /\ rafPending = running
  /\ rafCount = IF running THEN 1 ELSE 0
  /\ rafDpr = envDpr
  /\ ctxAvail = TRUE
  /\ ctxT = I /\ ctxStack = <<>>
  /\ fpc = "idle" /\ tickIdx = 0 /\ need = FALSE /\ drawIdx = 0
  /\ frame = NoFrame
  /\ boundWorld = I /\ pointers = <<>> /\ pinch = <<>> /\ drag = <<>>
  /\ lastOp = "init" /\ ops = 0
  /\ c1 = [phase |-> "none", redraws |-> 0]
  /\ plotProps = <<>> /\ cacheRef = <<>>
  /\ didAutoCenterRef = FALSE /\ gridDeps = <<>>
  /\ label = <<>>

Init == InitWith([w |-> 300, h |-> 150])

\* history of a call (the record of the last frame is dropped); C1Ops are
\* the calls counted from an idle provider
C1Ops == {"panByScreen", "zoomAtScreen", "resetView", "setWorld", "fitToRect",
          "registerLayer", "scheduleRedraw"}

Hist(op) ==
  /\ frame' = NoFrame
  /\ tickIdx' = 0 /\ drawIdx' = 0
  /\ lastOp' = op
  /\ ops' = ops + 1
  /\ c1' = IF op \in C1Ops /\ Idle
           THEN [phase |-> "one", redraws |-> 0]
           ELSE [phase |-> "many", redraws |-> 0]

\* a call from outside a frame callback (the page runs on one thread)
External == fpc = "idle" /\ ops < MaxOps

\* ensureLoop without the test of runningRef
ensureLoopAlways ==
  /\ running' = TRUE
  /\ rafPending' = TRUE
  /\ rafCount' = rafCount + 1
  /\ rafDpr' = dpr

ensureLoop ==
  /\ running' = TRUE
  /\ rafPending' = (rafPending \/ ~running)
  /\ rafCount' = IF running THEN rafCount ELSE rafCount + 1
  /\ rafDpr' = IF running THEN rafDpr ELSE dpr

\* scheduleRedraw without ensureLoop
scheduleRedrawOnlyDirty ==
  /\ dirty' = TRUE
  /\ UNCHANGED <<running, rafPending, rafCount, rafDpr>>

scheduleRedraw ==
  /\ dirty' = TRUE
  /\ ensureLoop

\* setWorldState(updater), once for each element of us, in one handler:
\* React runs an updater at once when nothing is queued on the component
\* (eager state), and otherwise when it renders
setWorldStates(us) ==
  LET eager == NoneQueued /\ us # <<>>
      q == [i \in 1..Len(us) |->
              [kind |-> us[i].kind, m |-> us[i].m, cdpr |-> dpr,
               done |-> (eager /\ i = 1)]]
  IN  /\ worldQ' = worldQ \o q
      /\ mats' = IF eager
                 THEN recomputeMatrices(dpr, Updated(q[1], world), mats)
                 ELSE mats

setWorldState(kind, m) == setWorldStates(<<[kind |-> kind, m |-> m]>>)

ViewCall(op, kind, m) ==
  /\ External
  /\ setWorldState(kind, m)
  /\ scheduleRedraw
  /\ Hist(op)
  /\ UNCHANGED <<dpr, size, world, sizeQ, dprQ, eff, envDpr, kidVars>>
  /\ UNCHANGED <<regVars, ctxVars, fpc, need, gestureVars>>

panByScreen(dx, dy) == ViewCall("panByScreen", "mul", translate(dx, dy))

zoomAtScreen(cx, cy, k) == ViewCall("zoomAtScreen", "mul", scaleAt(k, k, cx, cy))

resetView ==
  ViewCall("resetView", "set", translate(Q(size.w, 2), Q(size.h, 2)))

setWorld(v) == ViewCall("setWorld", "set", v)

\* Math.max(1e-9, x), compared without forming 10^9 * x.n
Max1e9(x) == IF x.n >= 1 + (x.d - 1) \div 1000000000 THEN x ELSE Q(1, 1000000000)

\* fitToRect with the larger of the two ratios as the scale
fitToRectNextFill(r, margin) ==
  LET wWorld == Max1e9(RSub(r.x1, r.x0))
      hWorld == Max1e9(RSub(r.y1, r.y0))
      availW == RMax(R(1), RSub(R(size.w), RMul(R(2), margin)))
      availH == RMax(R(1), RSub(R(size.h), RMul(R(2), margin)))
      s == Max1e9(RMax(RDiv(availW, wWorld), RDiv(availH, hWorld)))
      cx == Q(size.w, 2)
      cy == Q(size.h, 2)
      wx == RDiv(RAdd(r.x0, r.x1), R(2))
      wy == RDiv(RAdd(r.y0, r.y1), R(2))
  IN  mul(translate(cx, cy), mul(scaleAt(s, s, R(0), R(0)), translate(RNeg(wx), RNeg(wy))))

fitToRectNext(r, margin) ==
  LET wWorld == Max1e9(RSub(r.x1, r.x0))
      hWorld == Max1e9(RSub(r.y1, r.y0))
      availW == RMax(R(1), RSub(R(size.w), RMul(R(2), margin)))
      availH == RMax(R(1), RSub(R(size.h), RMul(R(2), margin)))
      s == Max1e9(RMin(RDiv(availW, wWorld), RDiv(availH, hWorld)))
      cx == Q(size.w, 2)
      cy == Q(size.h, 2)
      wx == RDiv(RAdd(r.x0, r.x1), R(2))
      wy == RDiv(RAdd(r.y0, r.y1), R(2))
  IN  mul(translate(cx, cy), mul(scaleAt(s, s, R(0), R(0)), translate(RNeg(wx), RNeg(wy))))

fitToRect(r, margin) == ViewCall("fitToRect", "set", fitToRectNext(r, margin))

\* the ResizeObserver callback: measure(); scheduleRedraw()
Resize(sz) ==
  /\ External
  /\ sizeQ' = sz
  /\ scheduleRedraw
  /\ Hist("resize")
  /\ UNCHANGED <<dpr, size, world, worldQ, dprQ, eff, envDpr, kidVars, mats>>
  /\ UNCHANGED <<regVars, ctxVars, fpc, need, gestureVars>>

\* the device-pixel-ratio changes and the resize / media-query listener runs
\* updateDpr, which compares with the dpr of its closure
updateDpr(d) ==
  /\ External
  /\ d # envDpr
  /\ envDpr' = d
  /\ IF d # dpr
     THEN dprQ' = d /\ scheduleRedraw
     ELSE UNCHANGED <<dprQ, dirty, running, rafPending, rafCount, rafDpr>>
  /\ Hist(IF d # dpr THEN "updateDpr" ELSE "updateDprSame")
  /\ UNCHANGED <<dpr, size, world, worldQ, sizeQ, eff, mats, kidVars>>
  /\ UNCHANGED <<regVars, ctxVars, fpc, need, gestureVars>>

registerLayer(z, visible, space) ==
  /\ External
  /\ idRef <= MaxId
  /\ layers' = Append(layers, [id |-> idRef, z |-> z, visible |-> visible, space |-> space])
  /\ idRef' = idRef + 1
  /\ layersDirty' = TRUE
  /\ scheduleRedraw
  /\ Hist("registerLayer")
  /\ UNCHANGED <<reactVars, envDpr, kidVars, sortedLayers, tickers, mats>>
  /\ UNCHANGED <<ctxVars, fpc, need, gestureVars>>

Without(seq, id) == SelectSeq(seq, LAMBDA x : x.id # id)

\* an unregister function that leaves the sorted cache as it is
unregisterLayerStale(id) ==
  /\ External
  /\ \E i \in 1..Len(layers) : layers[i].id = id
  /\ layers' = Without(layers, id)
  /\ scheduleRedraw
  /\ Hist("unregisterLayer")
  /\ UNCHANGED <<reactVars, envDpr, kidVars, sortedLayers, layersDirty, tickers, idRef, mats>>
  /\ UNCHANGED <<ctxVars, fpc, need, gestureVars>>

\* the function returned by registerLayer
unregisterLayer(id) ==
  /\ External
  /\ \E i \in 1..Len(layers) : layers[i].id = id
  /\ layers' = Without(layers, id)
  /\ layersDirty' = TRUE
  /\ scheduleRedraw
  /\ Hist("unregisterLayer")
  /\ UNCHANGED <<reactVars, envDpr, kidVars, sortedLayers, tickers, idRef, mats>>
  /\ UNCHANGED <<ctxVars, fpc, need, gestureVars>>

registerTicker ==
  /\ External
  /\ idRef <= MaxId
  /\ tickers' = Append(tickers, [id |-> idRef])
  /\ idRef' = idRef + 1
  /\ ensureLoop
  /\ Hist("registerTicker")
  /\ UNCHANGED <<reactVars, envDpr, kidVars, layers, sortedLayers, layersDirty, dirty, mats>>
  /\ UNCHANGED <<ctxVars, fpc, need, gestureVars>>

\* the function returned by registerTicker
unregisterTicker(id) ==
  /\ External
  /\ \E i \in 1..Len(tickers) : tickers[i].id = id
  /\ tickers' = Without(tickers, id)
  /\ scheduleRedraw
  /\ Hist("unregisterTicker")
  /\ UNCHANGED <<reactVars, envDpr, kidVars, layers, sortedLayers, layersDirty, idRef, mats>>
  /\ UNCHANGED <<ctxVars, fpc, need, gestureVars>>

ScheduleRedrawCall ==
  /\ External
  /\ scheduleRedraw
  /\ Hist("scheduleRedraw")
  /\ UNCHANGED <<reactVars, envDpr, kidVars, regVars, mats, ctxVars, fpc, need, gestureVars>>

(* ------------------------- React render and effects -------------------- *)
\* history of a step that is not a call
Step ==
  /\ frame' = NoFrame
  /\ tickIdx' = 0 /\ drawIdx' = 0
  /\ lastOp' = "step"

\* React renders the provider: the queued updaters run in order and the new
\* state is committed; the passive effects of the commit run later
Render ==
  /\ fpc = "idle"
  /\ ~NoneQueued
  /\ eff = NoEff
  /\ world' = Intended
  /\ mats' = FoldRefs(worldQ, world, mats)
  /\ worldQ' = <<>>
  /\ size' = sizeQ
  /\ dpr' = dprQ
  /\ eff' = [world |-> worldQ # <<>>, dpr |-> dprQ # dpr, size |-> sizeQ # size]
  /\ Step
  /\ UNCHANGED <<sizeQ, dprQ, envDpr, kidVars, rafPending, rafCount, rafDpr, running, dirty, ops, c1>>
  /\ UNCHANGED <<regVars, ctxVars, fpc, need, gestureVars>>

SameLinear(m1, m2) == m1.a = m2.a /\ m1.b = m2.b /\ m1.c = m2.c /\ m1.d = m2.d

\* the passive effects of a commit, in the order React runs them: the
\* handlers of PanZoomControls are bound again; useEffect([dpr, world]);
\* the init effect (its dependencies include dpr) runs updateDpr(); the
\* backing-store effect
FlushEffects ==
  LET again == eff.dpr /\ envDpr # dpr
      desired == Desired(size, dpr)
      resized == (eff.dpr \/ eff.size) /\ canvasWH # desired
  IN  /\ fpc = "idle"
      /\ eff # NoEff
      /\ eff' = NoEff
      /\ boundWorld' = IF SameLinear(boundWorld, world) /\ ~eff.dpr /\ ~eff.size
                       THEN boundWorld ELSE world
      /\ mats' = IF eff.world \/ eff.dpr
                 THEN recomputeMatrices(dpr, world, mats) ELSE mats
      /\ dprQ' = IF again THEN envDpr ELSE dprQ
      /\ canvasWH' = IF resized THEN desired ELSE canvasWH
      /\ ctxT' = IF resized THEN I ELSE ctxT
      /\ ctxStack' = IF resized THEN <<>> ELSE ctxStack
      /\ dirty' = (dirty \/ eff.world \/ eff.dpr \/ again \/ resized)
      /\ IF again \/ resized
         THEN ensureLoop
         ELSE UNCHANGED <<running, rafPending, rafCount, rafDpr>>
      /\ Step
      /\ gridDeps' = [i \in DOMAIN gridDeps |-> FALSE]
      /\ UNCHANGED <<dpr, size, world, worldQ, sizeQ, envDpr, ctxAvail, ops, c1>>
      /\ UNCHANGED <<plotProps, cacheRef, didAutoCenterRef, label>>
      /\ UNCHANGED <<regVars, fpc, need, pointers, pinch, drag>>

(* ------------------------------ drawFrame ------------------------------ *)
Ids(seq) == [i \in 1..Len(seq) |-> seq[i].id]

\* an insertion that puts x before the elements it ties with
RECURSIVE InsertZUnstable(_, _)
InsertZUnstable(sorted, x) ==
  IF sorted = <<>> THEN <<x>>
  ELSE IF Head(sorted).z < x.z THEN <<Head(sorted)>> \o InsertZUnstable(Tail(sorted), x)
  ELSE <<x>> \o sorted

\* Array.prototype.sort((a, b) => a.z - b.z) is stable: x goes after every
\* element that does not compare greater
RECURSIVE InsertZ(_, _)
InsertZ(sorted, x) ==
  IF sorted = <<>> THEN <<x>>
  ELSE IF Head(sorted).z <= x.z THEN <<Head(sorted)>> \o InsertZ(Tail(sorted), x)
  ELSE <<x>> \o sorted

RECURSIVE SortByZ(_)
SortByZ(seq) ==
  IF seq = <<>> THEN <<>>
  ELSE InsertZ(SortByZ(SubSeq(seq, 1, Len(seq) - 1)), seq[Len(seq)])

\* the ids whose unregister function has been called
Gone == {id \in 1..(idRef - 1) :
           /\ \A i \in 1..Len(layers) : layers[i].id # id
           /\ \A i \in 1..Len(tickers) : tickers[i].id # id}

\* a frame callback that goes on without a context
NoContextNever == FALSE

\* if (!ctx || !canvas)
NoContext == ~ctxAvail

\* the frame callback starts: the context guard, then the ticker pass
FrameBegin ==
  /\ fpc = "idle"
  /\ rafPending
  /\ rafPending' = (rafCount > 1)
  /\ rafCount' = rafCount - 1
  /\ IF NoContext
     THEN /\ running' = FALSE
          /\ frame' = NoFrame
          /\ tickIdx' = 0
          /\ UNCHANGED <<fpc, need>>
     ELSE /\ fpc' = "tick"
          /\ tickIdx' = 1
          /\ need' = FALSE
          /\ frame' = [NoFrame EXCEPT !.t0 = Ids(tickers), !.dirty0 = dirty,
                                      !.want = Intended, !.sdpr = rafDpr,
                                      !.gone0 = Gone]
          /\ UNCHANGED running
  /\ drawIdx' = 0
  /\ lastOp' = "step"
  /\ UNCHANGED <<reactVars, envDpr, kidVars, regVars, rafDpr, dirty, mats, ctxVars, gestureVars, ops, c1>>

PosOf(seq, id) == CHOOSE i \in 1..Len(seq) : seq[i].id = id

\* what a ticker callback may call while it runs
TickCalls == {<<"none", 0>>, <<"registerTicker", 0>>} \cup {<<"unregister", i>> : i \in 1..MaxId}
\* a ticker that makes a call returns false
TickOutcomes ==
  {[res |-> r, call |-> <<"none", 0>>] : r \in TickResults}
    \cup {[res |-> "false", call |-> c] : c \in TickCalls}

\* one iteration of `for (const [, t] of tickersRef.current)`: the Map
\* iterator is live, it reaches entries added during the pass and skips
\* entries deleted before it reaches them
\* a ticker pass that drops the result of the ticker
NeedAfterLost(n, res) == n

\* try { if (t(dt, now)) need = true; } catch (e) { ... }
NeedAfter(n, res) == n \/ res = "true"

\* the ticker returns res (or throws) after making the call
TickerStep(res, call) ==
  /\ fpc = "tick"
  /\ tickIdx <= Len(tickers)
  /\ need' = NeedAfter(need, res)
  /\ frame' = [frame EXCEPT !.ticks = Append(@, [id |-> tickers[tickIdx].id, res |-> res])]
  /\ CASE call[1] = "none" ->
            /\ tickIdx' = tickIdx + 1
            /\ UNCHANGED <<tickers, idRef, dirty>>
       [] call[1] = "registerTicker" ->
            /\ idRef <= MaxId
            /\ tickers' = Append(tickers, [id |-> idRef])
            /\ idRef' = idRef + 1
            /\ tickIdx' = tickIdx + 1
            /\ UNCHANGED dirty
       [] OTHER ->
            /\ \E i \in 1..Len(tickers) : tickers[i].id = call[2]
            /\ tickers' = Without(tickers, call[2])
            /\ tickIdx' = IF PosOf(tickers, call[2]) <= tickIdx
                          THEN tickIdx ELSE tickIdx + 1
            /\ dirty' = TRUE
            /\ UNCHANGED idRef
  /\ lastOp' = "step"
  /\ UNCHANGED <<reactVars, envDpr, kidVars, layers, sortedLayers, layersDirty>>
  /\ UNCHANGED <<rafPending, rafCount, rafDpr, running, mats, ctxVars, fpc, drawIdx, gestureVars, ops, c1>>

Visible(seq) == SelectSeq(seq, LAMBDA L : L.visible)

\* after the ticker pass: the dirty flag, then stop or clear, set the
\* transform and refresh the sorted cache
FrameDecide ==
  /\ fpc = "tick"
  /\ tickIdx > Len(tickers)
  /\ dirty' = FALSE
  /\ IF ~(need \/ dirty)
     THEN /\ running' = FALSE
          /\ fpc' = "idle"
          /\ frame' = [frame EXCEPT !.done = TRUE]
          /\ tickIdx' = 0
          /\ UNCHANGED <<sortedLayers, layersDirty, ctxT, drawIdx, c1>>
     ELSE /\ ctxT' = mats.deviceFromWorld
          /\ sortedLayers' = IF layersDirty THEN SortByZ(layers) ELSE sortedLayers
          /\ layersDirty' = FALSE
          /\ fpc' = "draw"
          /\ drawIdx' = 1
          /\ frame' = [frame EXCEPT !.drew = TRUE, !.m = mats.deviceFromWorld,
                                    !.l0 = Ids(Visible(layers))]
          /\ c1' = IF c1.phase = "one" THEN [c1 EXCEPT !.redraws = @ + 1] ELSE c1
          /\ UNCHANGED <<running, tickIdx>>
  /\ need' = FALSE
  /\ lastOp' = "step"
  /\ UNCHANGED <<reactVars, envDpr, kidVars, layers, tickers, idRef, rafPending, rafCount, rafDpr, mats>>
  /\ UNCHANGED <<ctxAvail, canvasWH, ctxStack, gestureVars, ops>>

\* the context state a draw callback leaves behind, from transform t and
\* save stack s
AfterDraw(res, t, s) ==
  CASE res = "xform" -> [t |-> mul(t, translate(R(1), R(1))), s |-> s]
    [] res = "saveThrow" -> [t |-> t, s |-> Append(s, t)]
    [] OTHER -> [t |-> t, s |-> s]

\* one iteration of the layer loop: save, the screen-space override, the
\* draw callback in its try/catch (it ends as res), restore
LayerStep(res) ==
  /\ fpc = "draw"
  /\ drawIdx <= Len(sortedLayers)
  /\ LET L == sortedLayers[drawIdx] IN
       IF ~L.visible
       THEN res = "ok" /\ UNCHANGED <<ctxT, ctxStack, frame>>
       ELSE   LET t0 == IF L.space = "screen" THEN Dev(rafDpr) ELSE ctxT
                  after == AfterDraw(res, t0, Append(ctxStack, ctxT))
              IN  /\ Len(after.s) <= MaxStack
                  /\ ctxT' = after.s[Len(after.s)]
                  /\ ctxStack' = SubSeq(after.s, 1, Len(after.s) - 1)
                  /\ frame' = [frame EXCEPT !.drawn = Append(@,
                                 [id |-> L.id, z |-> L.z, space |-> L.space,
                                  t |-> t0, res |-> res])]
  /\ drawIdx' = drawIdx + 1
  /\ lastOp' = "step"
  /\ UNCHANGED <<reactVars, envDpr, kidVars, regVars, rafPending, rafCount, rafDpr, running, dirty, mats>>
  /\ UNCHANGED <<ctxAvail, canvasWH, fpc, tickIdx, need, gestureVars, ops, c1>>

\* after the layer loop: requestAnimationFrame(drawFrame)
FrameEnd ==
  /\ fpc = "draw"
  /\ drawIdx > Len(sortedLayers)
  /\ rafPending' = TRUE
  /\ rafCount' = rafCount + 1
  /\ fpc' = "idle"
  /\ frame' = [frame EXCEPT !.done = TRUE]
  /\ tickIdx' = 0 /\ drawIdx' = 0
  /\ lastOp' = "step"
  /\ UNCHANGED <<reactVars, envDpr, kidVars, regVars, rafDpr, running, dirty, mats>>
  /\ UNCHANGED <<ctxVars, need, gestureVars, ops, c1>>

(* --------------------------- PanZoomControls --------------------------- *)
minScale == Q(2, 100)
maxScale == R(4096)

\* inputs: pointer ids and positions (on the line y = 0, the canvas at the
\* page origin), Math.exp(-dy * speed) of a ctrl+wheel event, the screen
\* point and the scroll of a wheel event
PointerIds == {1, 2}
PtSet == {R(0), R(1), R(2)}
WheelSet == {R(64), Q(1, 64)}
WheelAt == [x |-> R(2), y |-> R(1)]
WheelDy == R(100)

\* getScale(world) of the render whose handlers are bound
curScale == getScale(boundWorld)

clampScale(v) == RMin(maxScale, RMax(minScale, v))

panU(dx, dy) == [kind |-> "mul", m |-> translate(dx, dy)]
zoomU(cx, cy, k) == [kind |-> "mul", m |-> scaleAt(k, k, cx, cy)]
resetU == [kind |-> "set", m |-> translate(Q(size.w, 2), Q(size.h, 2))]

SmallR(x) == Abs(x.n) <= MaxCoord /\ x.d <= MaxCoord
Small(m) == SmallR(m.a) /\ SmallR(m.b) /\ SmallR(m.c) /\ SmallR(m.d) /\ SmallR(m.e) /\ SmallR(m.f)

\* a handler that calls the view operations us, each followed by
\* scheduleRedraw
Handler(op, us) ==
  /\ External
  /\ Small(FoldWorld(us, Intended))
  /\ IF us = <<>>
     THEN UNCHANGED <<worldQ, mats, dirty, running, rafPending, rafCount, rafDpr>>
     ELSE setWorldStates(us) /\ scheduleRedraw
  /\ Hist(op)
  /\ UNCHANGED <<dpr, size, world, sizeQ, dprQ, eff, envDpr, kidVars, boundWorld>>
  /\ UNCHANGED <<regVars, ctxVars, fpc, need>>

HasPointer(id) == \E i \in 1..Len(pointers) : pointers[i].id = id

\* Map.set: a known key keeps its place
SetPointer(ps, id, x) ==
  IF \E i \in 1..Len(ps) : ps[i].id = id
  THEN [i \in 1..Len(ps) |-> IF ps[i].id = id THEN [id |-> id, x |-> x] ELSE ps[i]]
  ELSE Append(ps, [id |-> id, x |-> x])

PinchOf(ps) ==
  [prevDist |-> hypot(RSub(ps[2].x, ps[1].x), R(0)),
   prevCx |-> RDiv(RAdd(ps[1].x, ps[2].x), R(2)),
   prevCy |-> R(0)]

onPointerDown(id, x) ==
  LET ps == SetPointer(pointers, id, x)
  IN  /\ pointers' = ps
      /\ drag' = <<[active |-> TRUE, x |-> x]>>
      /\ pinch' = IF Len(ps) = 2 THEN <<PinchOf(ps)>> ELSE pinch
      /\ Handler("onPointerDown", <<>>)

onPointerMove(id, x) ==
  LET ps == IF HasPointer(id) THEN SetPointer(pointers, id, x) ELSE pointers
  IN  /\ pointers' = ps
      /\ IF Len(ps) = 2 /\ pinch # <<>>
         THEN LET now == PinchOf(ps)
                  dist == now.prevDist
                  factor == IF dist.n > 0 /\ pinch[1].prevDist.n > 0
                            THEN RDiv(dist, pinch[1].prevDist) ELSE R(1)
                  cur == curScale
                  next == clampScale(RMul(cur, factor))
                  k == RDiv(next, cur)
                  zoom == IF k # R(1) THEN <<zoomU(now.prevCx, now.prevCy, k)>> ELSE <<>>
                  pan == panU(RSub(now.prevCx, pinch[1].prevCx),
                              RSub(now.prevCy, pinch[1].prevCy))
              IN  /\ pinch' = <<now>>
                  /\ UNCHANGED drag
                  /\ Handler("pinch", zoom \o <<pan>>)
         ELSE IF drag # <<>>
         THEN /\ drag' = <<[active |-> TRUE, x |-> x]>>
              /\ UNCHANGED pinch
              /\ Handler("drag", IF x # drag[1].x
                                 THEN <<panU(RSub(x, drag[1].x), R(0))>> ELSE <<>>)
         ELSE /\ UNCHANGED <<pinch, drag>>
              /\ Handler("move", <<>>)

\* pointerup, pointercancel, pointerleave, pointerout
cleanupPointer(id) ==
  LET ps == Without(pointers, id)
  IN  /\ drag' = <<>>
      /\ pointers' = ps
      /\ pinch' = IF Len(ps) < 2 THEN <<>> ELSE pinch
      /\ Handler("cleanupPointer", <<>>)

\* ctrl+wheel: raw is Math.exp(-dy * speed)
onWheelZoom(raw) ==
  LET cur == curScale
      next == clampScale(RMul(cur, raw))
      k == RDiv(next, cur)
  IN  /\ Handler("wheelZoom", IF k = R(1) THEN <<>> ELSE <<zoomU(WheelAt.x, WheelAt.y, k)>>)
      /\ UNCHANGED <<pointers, pinch, drag>>

\* wheel without ctrl: a horizontal pan with shift, a vertical pan without
onWheelPan(shift, dy) ==
  /\ Handler("wheelPan",
             IF shift THEN <<panU(RNeg(RMul(dy, Q(1, 2))), R(0))>>
             ELSE <<panU(R(0), RNeg(RMul(dy, Q(1, 2))))>>)
  /\ UNCHANGED <<pointers, pinch, drag>>

onDbl ==
  /\ Handler("dblclick", <<resetU>>)
  /\ UNCHANGED <<pointers, pinch, drag>>

onKey(key) ==
  LET cur == curScale
      cx == Q(size.w, 2)
      cy == Q(size.h, 2)
  IN  /\ key \in {"0", "+", "-"}
      /\ Handler("key" \o key,
                 CASE key = "0" -> <<resetU>>
                   [] key = "+" -> <<zoomU(cx, cy, RDiv(RMin(maxScale, RMul(cur, Q(11, 10))), cur))>>
                   [] key = "-" -> <<zoomU(cx, cy, RDiv(RMax(minScale, RDiv(cur, Q(11, 10))), cur))>>)
      /\ UNCHANGED <<pointers, pinch, drag>>

(* ------------------------- specifications ------------------------------ *)
Pan1 == [dx |-> R(100), dy |-> R(50)]
Zoom1 == [cx |-> R(400), cy |-> R(300), k |-> R(2)]
World1 == Mx(R(0), R(1), R(-1), R(0), R(5), R(0))
NoCall == <<"none", 0>>

FrameSteps(outcomes, draws) ==
  \/ FrameBegin
  \/ \E o \in outcomes : TickerStep(o.res, o.call)
  \/ FrameDecide
  \/ \E res \in draws : LayerStep(res)
  \/ FrameEnd

\* every operation of the provider, one input each
Next ==
  \/ panByScreen(Pan1.dx, Pan1.dy)
  \/ zoomAtScreen(Zoom1.cx, Zoom1.cy, Zoom1.k)
  \/ resetView
  \/ setWorld(World1)
  \/ \E r \in RectSet, mg \in MarginSet : fitToRect(r, mg)
  \/ \E sz \in SizeSet : Resize(sz)
  \/ \E d \in DprSet : updateDpr(d)
  \/ registerLayer(0, TRUE, "world")
  \/ \E id \in 1..MaxId : unregisterLayer(id)
  \/ registerTicker
  \/ \E id \in 1..MaxId : unregisterTicker(id)
  \/ ScheduleRedrawCall
  \/ Render
  \/ FlushEffects
  \/ FrameSteps({[res |-> "true", call |-> NoCall], [res |-> "false", call |-> NoCall]}, {"ok"})

Spec == Init /\ [][Next]_vars

\* the view: every view mutation, React's deferred updates and the loop
NextView ==
  \/ \E p \in PanSet : panByScreen(p.dx, p.dy)
  \/ \E zm \in ZoomSet : zoomAtScreen(zm.cx, zm.cy, zm.k)
  \/ resetView
  \/ \E v \in WorldSet : setWorld(v)
  \/ \E r \in RectSet, mg \in MarginSet : fitToRect(r, mg)
  \/ registerLayer(0, TRUE, "world")
  \/ ScheduleRedrawCall
  \/ Render
  \/ FlushEffects
  \/ FrameBegin
  \/ FrameDecide
  \/ LayerStep("ok")
  \/ FrameEnd

SpecView == Init /\ [][NextView]_vars

\* the loop: layers, tickers and their callbacks under a panned view
NextLoop ==
  \/ panByScreen(Pan1.dx, Pan1.dy)
  \/ \E o \in LayerSet : registerLayer(o.z, o.visible, o.space)
  \/ \E id \in 1..MaxId : unregisterLayer(id)
  \/ registerTicker
  \/ \E id \in 1..MaxId : unregisterTicker(id)
  \/ ScheduleRedrawCall
  \/ Render
  \/ FlushEffects
  \/ FrameSteps(TickOutcomes, DrawResults)

SpecLoop == Init /\ [][NextLoop]_vars

\* the gestures of PanZoomControls on a provider without layers or tickers
NextGesture ==
  \/ \E id \in PointerIds, x \in PtSet : onPointerDown(id, x)
  \/ \E id \in PointerIds, x \in PtSet : onPointerMove(id, x)
  \/ \E id \in PointerIds : cleanupPointer(id)
  \/ \E raw \in WheelSet : onWheelZoom(raw)
  \/ \E shift \in BOOLEAN : onWheelPan(shift, WheelDy)
  \/ onDbl
  \/ \E key \in {"0", "+", "-"} : onKey(key)
  \/ Render
  \/ FlushEffects
  \/ FrameBegin
  \/ FrameDecide
  \/ FrameEnd

\* <CanvasProvider width={4} height={2}>
InitGesture == InitWith([w |-> 4, h |-> 2])

SpecGesture == InitGesture /\ [][NextGesture]_vars

\* the public converters of the api, in CSS px
toScreen(pt) == apply(mats.cssFromWorld, pt.x, pt.y)
toWorld(pt) == apply(mats.worldFromCss, pt.x, pt.y)

\* the end-to-end scenario on <CanvasProvider width={800} height={600}>:
\* panByScreen(100, 50) once, then zoomAtScreen(400, 300, 2) once, with
\* React's render, the effects and the frames in between and after
Panned == translate(Pan1.dx, Pan1.dy)

NextScenario ==
  \/ Intended = I /\ panByScreen(Pan1.dx, Pan1.dy)
  \/ Intended = Panned /\ zoomAtScreen(Zoom1.cx, Zoom1.cy, Zoom1.k)
  \/ registerLayer(0, TRUE, "world")
  \/ ScheduleRedrawCall
  \/ Render
  \/ FlushEffects
  \/ FrameBegin
  \/ FrameDecide
  \/ LayerStep("ok")
  \/ FrameEnd

InitScenario == InitWith([w |-> 800, h |-> 600])

SpecScenario == InitScenario /\ [][NextScenario]_vars

\* fitToRect on <CanvasProvider width={4} height={2}>: a wide rect, a tall
\* rect and a rect 2.1e9 high, with margins 0 and 1/2
FitRectSet == {[x0 |-> R(-2), y0 |-> R(-1), x1 |-> R(2), y1 |-> R(1)],
               [x0 |-> R(0), y0 |-> R(0), x1 |-> R(1), y1 |-> R(4)],
               [x0 |-> R(-1), y0 |-> R(-1050000000), x1 |-> R(1), y1 |-> R(1050000000)]}
FitMarginSet == {R(0), Q(1, 2)}

NextFit ==
  \/ \E r \in FitRectSet, mg \in FitMarginSet : fitToRect(r, mg)
  \/ registerLayer(0, TRUE, "world")
  \/ ScheduleRedrawCall
  \/ Render
  \/ FlushEffects
  \/ FrameBegin
  \/ FrameDecide
  \/ LayerStep("ok")
  \/ FrameEnd

InitFit == InitWith([w |-> 4, h |-> 2])

SpecFit == InitFit /\ [][NextFit]_vars

\* layers of both spaces under a panned view while the device-pixel-ratio
\* changes; the draw callbacks return normally
NextDpr ==
  \/ \E d \in DprSet : updateDpr(d)
  \/ panByScreen(Pan1.dx, Pan1.dy)
  \/ \E sp \in {"screen", "world"} : registerLayer(0, TRUE, sp)
  \/ Render
  \/ FlushEffects
  \/ FrameBegin
  \/ FrameDecide
  \/ \E res \in {"ok", "xform"} : LayerStep(res)
  \/ FrameEnd

SpecDpr == Init /\ [][NextDpr]_vars

\* setWorld over matrices of every kind: a rotation with scale, a shear, a
\* reflection, an anisotropic scale, a matrix of determinant 0 and a scale of
\* 1e-9 (determinant 1e-18)
InvertSet == {Mx(R(3), R(4), R(-4), R(3), R(5), R(0)),
              Mx(R(1), R(0), R(1), R(1), R(0), R(0)),
              Mx(R(0), R(1), R(1), R(0), R(1), R(2)),
              Mx(R(2), R(0), R(0), Q(1, 2), R(7), R(-3)),
              Mx(R(3), R(4), R(6), R(8), R(0), R(0)),
              Mx(Q(1, 1000000000), R(0), R(0), Q(1, 1000000000), R(2), R(1))}

NextInvert ==
  \/ \E v \in InvertSet : setWorld(v)
  \/ registerLayer(0, TRUE, "world")
  \/ Render
  \/ FlushEffects
  \/ FrameBegin
  \/ FrameDecide
  \/ LayerStep("ok")
  \/ FrameEnd

SpecInvert == Init /\ [][NextInvert]_vars

(* ----------------------------- FunctionPlot ---------------------------- *)
\* the props of FunctionPlot left at their defaults
pxStep == R(1)
maxSegmentPx == R(4)
overscan == Q(1, 4)
maxPoints == 200000
\* the props the model varies: fn, maxDepth, yLimit (1e6 is the default) and
\* maxPoints; PlotProps plots f(x) = 1/x with the default point budget
PlotProps == {[fn |-> "recip", maxDepth |-> d, yLimit |-> y, maxPoints |-> maxPoints] :
                d \in {1, 2, 3}, y \in {R(1000000), R(5)}}

\* fn of the plots of the model: "recip" is f(x) = 1/x (<<>> for the
\* Infinity of 1/0), "half" is f(x) = x/2
fn(f, x) ==
  IF f = "recip" THEN (IF x.n = 0 THEN <<>> ELSE <<RDiv(R(1), x)>>)
  ELSE <<RDiv(x, R(2))>>

\* safeY: <<>> stands for null
safeY(f, x, yLimit) ==
  LET y == fn(f, x)
  IN  IF y = <<>> THEN <<>>
      ELSE IF RLt(yLimit, RAbs(y[1])) THEN <<>>
      ELSE y

\* Math.hypot(dx, dy) <= lim, on the squares
DistWithin(dx, dy, lim) == RLe(RAdd(RMul(dx, dx), RMul(dy, dy)), RMul(lim, lim))

\* the pen state of buildPath: the Path2D as its moveTo ("M") and lineTo
\* ("L") calls, penDown, lastX / lastY (<<>> for null) and points; deep is
\* the largest depth addSegment was called with
Path0 == [path |-> <<>>, penDown |-> FALSE, last |-> <<>>, points |-> 0, deep |-> 0]
PenUp(S) == [S EXCEPT !.penDown = FALSE, !.last = <<>>]
MoveTo(S, x, y) ==
  [S EXCEPT !.path = Append(@, [op |-> "M", x |-> x, y |-> y]),
            !.penDown = TRUE, !.points = @ + 1]
LineTo(S, x, y) ==
  [S EXCEPT !.path = Append(@, [op |-> "L", x |-> x, y |-> y]),
            !.points = @ + 1, !.last = <<[x |-> x, y |-> y]>>]

\* addSegment(ax, ay, bx, depth) on the pen state S, with toScreen = apply(m, .)
RECURSIVE addSegment(_, _, _, _, _, _, _)
addSegment(S0, ax, ay, bx, depth, m, pr) ==
  LET S == [S0 EXCEPT !.deep = IF depth > @ THEN depth ELSE @] IN
  IF S.points > pr.maxPoints THEN S
  ELSE LET by == safeY(pr.fn, bx, pr.yLimit) IN
    IF by = <<>> THEN PenUp(S)
    ELSE LET p0 == apply(m, ax, ay)
             p1 == apply(m, bx, by[1])
             dx == RSub(p1.x, p0.x)
             dy == RSub(p1.y, p0.y)
         IN  IF DistWithin(dx, dy, maxSegmentPx) \/ depth >= pr.maxDepth
             THEN LineTo(IF S.penDown THEN S ELSE MoveTo(S, ax, ay), bx, by[1])
             ELSE LET mid == RDiv(RAdd(ax, bx), R(2))
                      my == safeY(pr.fn, mid, pr.yLimit)
                  IN  IF my = <<>>
                      THEN addSegment(PenUp(addSegment(S, ax, ay, mid, depth + 1, m, pr)),
                                      mid, ay, bx, depth + 1, m, pr)
                      ELSE addSegment(addSegment(S, ax, ay, mid, depth + 1, m, pr),
                                      mid, my[1], bx, depth + 1, m, pr)

\* screenToWorldX: f(x) = toScreen({x, y: 0}).x
ScreenX(m, x) == apply(m, x, R(0)).x
Between(lo, t, hi) == (RLe(lo, t) /\ RLe(t, hi)) \/ (RLe(hi, t) /\ RLe(t, lo))

\* the 24 bisections; flo and fhi stay those of the widened interval
RECURSIVE Bisect(_, _, _, _, _, _)
Bisect(m, target, lo, hi, up, i) ==
  IF i >= 24 THEN RDiv(RAdd(lo, hi), R(2))
  ELSE LET mid == RDiv(RAdd(lo, hi), R(2))
           fmid == ScreenX(m, mid)
       IN  IF fmid = target THEN mid
           ELSE IF RLt(fmid, target) = up
                THEN Bisect(m, target, mid, hi, up, i + 1)
                ELSE Bisect(m, target, lo, mid, up, i + 1)

\* the widening loop, expand counting its passes
RECURSIVE Widen(_, _, _, _, _, _)
Widen(m, target, guess, lo, hi, expand) ==
  IF Between(ScreenX(m, lo), target, ScreenX(m, hi))
  THEN Bisect(m, target, lo, hi, RLt(ScreenX(m, lo), ScreenX(m, hi)), 0)
  ELSE IF expand + 1 > 20 THEN guess
  ELSE LET span == RSub(hi, lo)
       IN  Widen(m, target, guess, RSub(lo, span), RAdd(hi, span), expand + 1)

screenToWorldX(screenX, m, guessWorldX) ==
  Widen(m, screenX, guessWorldX, RSub(guessWorldX, R(1)), RAdd(guessWorldX, R(1)), 0)

\* x > 1e-12 for x >= 0, without forming 10^12 * x.n
Above1e12(x) == x.n > (x.d \div 1000000) \div 1000000

\* Math.ceil of a positive rational
Ceil(x) == (x.n + x.d - 1) \div x.d

estimateWorldStep(m, x0, x1) ==
  LET s0 == apply(m, x0, R(0))
      w1 == screenToWorldX(RAdd(s0.x, pxStep), m, x0)
      dxWorld == RAbs(RSub(w1, x0))
      w == RSub(x1, x0)
  IN  IF Above1e12(dxWorld) THEN dxWorld
      ELSE RDiv(w, RMax(R(1000), RMul(w, R(100))))

\* the coarse loop from sample i on
RECURSIVE CoarseFrom(_, _, _, _, _, _, _, _)
CoarseFrom(S, i, n, x0, x1, stepWorld, m, pr) ==
  IF i > n THEN S
  ELSE LET x == IF i = n THEN x1 ELSE RAdd(x0, RMul(R(i), stepWorld))
           y == safeY(pr.fn, x, pr.yLimit)
       IN  IF y = <<>> THEN CoarseFrom(PenUp(S), i + 1, n, x0, x1, stepWorld, m, pr)
           ELSE IF S.last = <<>>
           THEN CoarseFrom([MoveTo(S, x, y[1]) EXCEPT !.last = <<[x |-> x, y |-> y[1]]>>],
                           i + 1, n, x0, x1, stepWorld, m, pr)
           ELSE LET S1 == addSegment(S, S.last[1].x, S.last[1].y, x, 0, m, pr)
                IN  IF S1.points > pr.maxPoints THEN S1
                    ELSE CoarseFrom(S1, i + 1, n, x0, x1, stepWorld, m, pr)

\* buildPath({fn, toScreen, x0, x1, ...}): the pen state when it returns
buildState(m, x0, x1, pr) ==
  LET stepWorld == estimateWorldStep(m, x0, x1)
      n == IF Ceil(RDiv(RSub(x1, x0), stepWorld)) > 2
           THEN Ceil(RDiv(RSub(x1, x0), stepWorld)) ELSE 2
  IN  CoarseFrom(Path0, 0, n, x0, x1, stepWorld, m, pr)

\* the Path2D that buildPath returns, as the calls made on it
buildPath(m, x0, x1, pr) == buildState(m, x0, x1, pr).path

\* the range of the draw callback of FunctionPlot: the visible x range of
\* the world, widened by overscan on both sides
PlotRange ==
  LET W0 == apply(mats.worldFromCss, R(0), R(0))
      W1 == apply(mats.worldFromCss, R(size.w), R(0))
      lo == RMin(W0.x, W1.x)
      hi == RMax(W0.x, W1.x)
      ww == RSub(hi, lo)
  IN  [x0 |-> RSub(lo, RMul(ww, overscan)), x1 |-> RAdd(hi, RMul(ww, overscan))]

\* Math.abs(toWorld({x: 1, y: 0}).x - toWorld({x: 0, y: 0}).x) || 1e-6
worldPerPx ==
  LET d == RAbs(RSub(apply(mats.worldFromCss, R(1), R(0)).x,
                     apply(mats.worldFromCss, R(0), R(0)).x))
  IN  IF d.n = 0 THEN Q(1, 1000000) ELSE d

\* needRebuild: the cache has no path, or the range is not inside the cached
\* one, or the scale is not close to the cached one
needRebuild(cache, rg, wpp) ==
  IF cache = <<>> THEN TRUE
  ELSE LET inRange == RLe(cache[1].range.x0, rg.x0) /\ RLe(rg.x1, cache[1].range.x1)
           scaleClose == RLe(RAbs(RSub(cache[1].worldPerPx, wpp)), RMul(wpp, Q(1, 4)))
       IN  ~(inRange /\ scaleClose)

\* history of a call made by the effect of a mounted component: it is not
\* one of the calls of the host that MaxOps counts
KidHist(op) ==
  /\ frame' = NoFrame
  /\ tickIdx' = 0 /\ drawIdx' = 0
  /\ lastOp' = op
  /\ c1' = [phase |-> "many", redraws |-> 0]
  /\ UNCHANGED ops

\* the layer registered by the mounted FunctionPlot
IsPlotLayer(L) == L.z = 10 /\ L.space = "world" /\ L.visible

\* one iteration of the layer loop on the layer of the FunctionPlot: draw
\* takes the range and the scale from the refs, rebuilds the cached path if
\* needRebuild, and strokes the cached path between its own save and
\* restore. The field from of the cache is history: the props its path was
\* built with. The size is that of the last render.
PlotStroke(L, pr, rg, wpp, rebuild, st) ==
  /\ cacheRef' = IF rebuild
                 THEN <<[range |-> rg, worldPerPx |-> wpp, path |-> st.path, from |-> pr]>>
                 ELSE cacheRef
  /\ frame' = [frame EXCEPT !.drawn = Append(@,
                 [id |-> L.id, z |-> L.z, space |-> L.space,
                  t |-> ctxT, res |-> "ok",
                  x0 |-> rg.x0, x1 |-> rg.x1, wpp |-> wpp, pr |-> pr,
                  rebuilt |-> rebuild, before |-> cacheRef,
                  points |-> st.points, deep |-> st.deep,
                  path |-> IF rebuild THEN st.path ELSE cacheRef[1].path,
                  from |-> IF rebuild THEN pr ELSE cacheRef[1].from])]

PlotDraw(L, pr, rg, wpp, rebuild) ==
  PlotStroke(L, pr, rg, wpp, rebuild,
             IF rebuild THEN buildState(mats.cssFromWorld, rg.x0, rg.x1, pr) ELSE Path0)

PlotStep ==
  /\ fpc = "draw"
  /\ drawIdx <= Len(sortedLayers)
  /\ plotProps # <<>>
  /\ IsPlotLayer(sortedLayers[drawIdx])
  /\ Len(ctxStack) + 2 <= MaxStack
  /\ PlotDraw(sortedLayers[drawIdx], plotProps[1], PlotRange, worldPerPx,
              needRebuild(cacheRef, PlotRange, worldPerPx))
  /\ drawIdx' = drawIdx + 1
  /\ lastOp' = "step"
  /\ UNCHANGED <<plotProps, didAutoCenterRef, gridDeps, label>>
  /\ UNCHANGED <<reactVars, envDpr, regVars, rafPending, rafCount, rafDpr, running, dirty, mats>>
  /\ UNCHANGED <<ctxVars, fpc, tickIdx, need, gestureVars, ops, c1>>

\* FunctionPlot mounts with the props pr: its effect registers the layer
PlotMount(pr) ==
  /\ fpc = "idle"
  /\ plotProps = <<>>
  /\ idRef <= MaxId
  /\ plotProps' = <<pr>>
  /\ layers' = Append(layers, [id |-> idRef, z |-> 10, visible |-> TRUE, space |-> "world"])
  /\ idRef' = idRef + 1
  /\ layersDirty' = TRUE
  /\ scheduleRedraw
  /\ KidHist("registerLayer")
  /\ UNCHANGED <<cacheRef, didAutoCenterRef, gridDeps, label>>
  /\ UNCHANGED <<reactVars, envDpr, sortedLayers, tickers, mats>>
  /\ UNCHANGED <<ctxVars, fpc, need, gestureVars>>

\* the props of the mounted FunctionPlot change to pr: the cleanup of its
\* effect unregisters the layer and the effect registers a layer with the
\* new draw; cacheRef belongs to the component and stays
PlotSetProps(pr) ==
  /\ fpc = "idle"
  /\ plotProps # <<>> /\ plotProps # <<pr>>
  /\ idRef <= MaxId
  /\ plotProps' = <<pr>>
  /\ layers' = Append(SelectSeq(layers, LAMBDA L : ~IsPlotLayer(L)),
                      [id |-> idRef, z |-> 10, visible |-> TRUE, space |-> "world"])
  /\ idRef' = idRef + 1
  /\ layersDirty' = TRUE
  /\ scheduleRedraw
  /\ KidHist("registerLayer")
  /\ UNCHANGED <<cacheRef, didAutoCenterRef, gridDeps, label>>
  /\ UNCHANGED <<reactVars, envDpr, sortedLayers, tickers, mats>>
  /\ UNCHANGED <<ctxVars, fpc, need, gestureVars>>

\* the worlds of the plots: scale 2 with the singularity x = 0 on a coarse
\* sample (e = 4), on the midpoint of two samples (e = 9/2) and at a third
\* of the way between two samples (e = 13/3), and scale 2/3 with the
\* singularity on a midpoint
PlotWorldSet == {Mx(R(2), R(0), R(0), R(2), R(4), R(0)),
                 Mx(R(2), R(0), R(0), R(2), Q(9, 2), R(0)),
                 Mx(R(2), R(0), R(0), R(2), Q(13, 3), R(0)),
                 Mx(Q(2, 3), R(0), R(0), Q(2, 3), Q(9, 2), R(0))}

\* a host that sets one of these worlds and then mounts FunctionPlot
NextPlot ==
  \/ \E v \in PlotWorldSet : setWorld(v)
  \/ \E pr \in PlotProps : (mats.cssFromWorld \in PlotWorldSet /\ PlotMount(pr))
  \/ Render
  \/ FlushEffects
  \/ FrameBegin
  \/ FrameDecide
  \/ PlotStep
  \/ FrameEnd

InitPlot == InitWith([w |-> 8, h |-> 4])

SpecPlot == InitPlot /\ [][NextPlot]_vars

\* props with a small point budget
BudgetProps == {[fn |-> "recip", maxDepth |-> d, yLimit |-> R(1000000), maxPoints |-> n] :
                  d \in {0, 2}, n \in {4, 9, 30}}
BudgetWorldSet == {Mx(R(2), R(0), R(0), R(2), R(4), R(0)),
                   Mx(R(2), R(0), R(0), R(2), Q(13, 3), R(0))}

NextBudget ==
  \/ \E v \in BudgetWorldSet : setWorld(v)
  \/ \E pr \in BudgetProps : (mats.cssFromWorld \in BudgetWorldSet /\ PlotMount(pr))
  \/ Render
  \/ FlushEffects
  \/ FrameBegin
  \/ FrameDecide
  \/ PlotStep
  \/ FrameEnd

SpecBudget == InitPlot /\ [][NextBudget]_vars

\* worlds for the cache: scales 8/5, 2 and 16/13 (5/8, 1/2 and 13/16 world
\* units to the pixel); the canvas shrinks from 8 to 4 pixels
CacheWorldSet == {Mx(Q(8, 5), R(0), R(0), Q(8, 5), R(4), R(0)),
                  Mx(R(2), R(0), R(0), R(2), R(4), R(0)),
                  Mx(Q(16, 13), R(0), R(0), Q(16, 13), R(2), R(0))}
CacheSizeSet == {[w |-> 4, h |-> 4]}
CacheProps == {[fn |-> f, maxDepth |-> 2, yLimit |-> R(1000000), maxPoints |-> maxPoints] :
                 f \in {"recip", "half"}}

\* a host that zooms and resizes under a mounted FunctionPlot and changes
\* its fn
NextCache ==
  \/ \E v \in CacheWorldSet : setWorld(v)
  \/ \E sz \in CacheSizeSet : Resize(sz)
  \/ \E pr \in CacheProps : (mats.cssFromWorld \in CacheWorldSet /\ PlotMount(pr))
  \/ \E pr \in CacheProps : PlotSetProps(pr)
  \/ Render
  \/ FlushEffects
  \/ FrameBegin
  \/ FrameDecide
  \/ PlotStep
  \/ FrameEnd

SpecCache == InitPlot /\ [][NextCache]_vars

(* ------------------------- TrigonometricalGrid ------------------------- *)
\* strings are sequences of characters; `${N}` of a natural number
DigitChar == <<"0", "1", "2", "3", "4", "5", "6", "7", "8", "9">>
RECURSIVE NumStr(_)
NumStr(N) ==
  IF N < 10 THEN <<DigitChar[N + 1]>>
  ELSE NumStr(N \div 10) \o <<DigitChar[(N % 10) + 1]>>

\* gcd: the loop on |a| and |b|, then a || 1
RECURSIVE gcdLoop(_, _)
gcdLoop(a, b) == IF b = 0 THEN a ELSE gcdLoop(b, a % b)
gcd(a, b) ==
  LET g == gcdLoop(Abs(a), Abs(b)) IN IF g = 0 THEN 1 ELSE g

\* Math.round: the nearest integer, a half goes up
MathRound(x) == (2 * x.n + x.d) \div (2 * x.d)

\* the body of `if (diff < bestDiff)`: the string for n over d
RadianStr(n, d) ==
  LET g == gcd(n, d)
      nn == n \div g
      dd == d \div g
      sign == IF nn < 0 THEN <<"-">> ELSE <<>>
      N == Abs(nn)
  IN  IF N = 0 THEN <<"0">>
      ELSE IF dd = 1
      THEN (IF N = 1 THEN sign \o <<"π">> ELSE sign \o NumStr(N) \o <<"π">>)
      ELSE sign \o (IF N = 1 THEN <<>> ELSE NumStr(N)) \o <<"π", "/">> \o NumStr(dd)

\* the loop over denoms; bestDiff is <<>> for Infinity
RECURSIVE BestRadian(_, _, _, _)
BestRadian(t, denoms, bestStr, bestDiff) ==
  IF denoms = <<>> THEN bestStr
  ELSE LET d == Head(denoms)
           n == MathRound(RMul(t, R(d)))
           diff == RAbs(RSub(Q(n, d), t))
       IN  IF bestDiff = <<>> \/ RLt(diff, bestDiff[1])
           THEN BestRadian(t, Tail(denoms), RadianStr(n, d), <<diff>>)
           ELSE BestRadian(t, Tail(denoms), bestStr, bestDiff)

\* |x| < 1e-9 for x = t * pi, with 355/113 for pi
TinyRadian(t) == RLt(RMul(RAbs(t), Q(355, 113)), Q(1, 1000000000))

\* fmtRadian with the denominators 1, 2 and 4 only
fmtRadianCoarse(t) ==
  IF TinyRadian(t) THEN <<"0">>
  ELSE BestRadian(t, <<1, 2, 4>>, <<>>, <<>>)

\* fmtRadian(x) for the finite x = t * pi: t stands for x / Math.PI
fmtRadian(t) ==
  IF TinyRadian(t) THEN <<"0">>
  ELSE BestRadian(t, <<1, 2, 4, 8, 16, 32, 64>>, <<>>, <<>>)

\* the multiples of pi that are formatted: n / d with |n| <= MaxNumerator
MaxNumerator == 24
RadianDenoms == {1, 2, 4, 8, 16, 32, 64}

\* a tick label is formatted: ctx.fillText(fmtRadian(x), ...)
FormatTick(t) ==
  /\ fpc = "idle"
  /\ label' = <<[t |-> t, text |-> fmtRadian(t)]>>
  /\ UNCHANGED <<plotProps, cacheRef, didAutoCenterRef, gridDeps>>
  /\ UNCHANGED <<reactVars, envDpr, regVars, ctxVars, gestureVars, mats>>
  /\ UNCHANGED <<rafPending, rafCount, rafDpr, running, dirty>>
  /\ UNCHANGED <<fpc, tickIdx, need, drawIdx, frame, lastOp, ops, c1>>

NextLabel ==
  \E n \in -MaxNumerator..MaxNumerator : \E d \in RadianDenoms : FormatTick(Q(n, d))

SpecLabel == Init /\ [][NextLabel]_vars

(* ------------------------- grid auto-centering ------------------------- *)
\* MathGrid and TrigonometricalGrid share the effect. Its dependencies hold
\* toScreen, whose identity changes with every commit of world, size or dpr,
\* so the effect runs at mount and in the flush of every commit, before the
\* effects of the provider (React runs a child's passive effects first)
Small9(x) == RLt(RAbs(x), Q(1, 1000000000))
Half(x) == RLt(RAbs(x), Q(1, 2))

nearCenter ==
  LET s0 == toScreen([x |-> R(0), y |-> R(0)])
  IN  Half(RSub(s0.x, Q(size.w, 2))) /\ Half(RSub(s0.y, Q(size.h, 2)))

unscaled ==
  /\ Small9(RSub(world.a, R(1))) /\ Small9(RSub(world.d, R(1)))
  /\ Small9(world.b) /\ Small9(world.c)

nearTopLeft ==
  LET s0 == toScreen([x |-> R(0), y |-> R(0)])
  IN  Half(s0.x) /\ Half(s0.y)

\* the body of the effect
AutoCenter ==
  IF didAutoCenterRef \/ size.w <= 0 \/ size.h <= 0
  THEN /\ KidHist("autoCenter")
       /\ UNCHANGED <<didAutoCenterRef, worldQ, mats, dirty, running,
                      rafPending, rafCount, rafDpr>>
  ELSE IF nearCenter
  THEN /\ didAutoCenterRef' = TRUE
       /\ KidHist("autoCenter")
       /\ UNCHANGED <<worldQ, mats, dirty, running, rafPending, rafCount, rafDpr>>
  ELSE IF nearTopLeft \/ unscaled
  THEN /\ setWorldState("set", translate(Q(size.w, 2), Q(size.h, 2)))
       /\ scheduleRedraw
       /\ KidHist("autoCenter:resetView")
       /\ UNCHANGED didAutoCenterRef
  ELSE /\ KidHist("autoCenter")
       /\ UNCHANGED <<didAutoCenterRef, worldQ, mats, dirty, running,
                      rafPending, rafCount, rafDpr>>

AutoCenterFrame ==
  /\ UNCHANGED <<dpr, size, world, sizeQ, dprQ, eff, envDpr>>
  /\ UNCHANGED <<plotProps, cacheRef, label>>
  /\ UNCHANGED <<regVars, ctxVars, fpc, need, gestureVars>>

\* a grid is mounted under a provider that has settled
GridMount ==
  /\ fpc = "idle"
  /\ gridDeps = <<>>
  /\ eff = NoEff
  /\ AutoCenter
  /\ gridDeps' = <<FALSE>>
  /\ AutoCenterFrame

\* the effect of the mounted grid in the flush of a commit
GridEffect ==
  /\ fpc = "idle"
  /\ gridDeps = <<FALSE>>
  /\ eff # NoEff
  /\ AutoCenter
  /\ gridDeps' = <<TRUE>>
  /\ AutoCenterFrame

\* the flush is one task: nothing runs between the effect of the grid and
\* the effects of the provider
InFlush == gridDeps = <<TRUE>>

GridWorldSet == {Mx(R(2), R(0), R(0), R(2), R(0), R(0)),
                 Mx(R(1), R(0), R(0), R(1), R(150), R(75)),
                 Mx(R(2), R(0), R(0), R(2), R(400), R(300))}

NextGrid ==
  \/ ~InFlush /\ \E v \in GridWorldSet : setWorld(v)
  \/ ~InFlush /\ zoomAtScreen(Zoom1.cx, Zoom1.cy, Zoom1.k)
  \/ ~InFlush /\ \E sz \in SizeSet : Resize(sz)
  \/ GridMount
  \/ GridEffect
  \/ ~InFlush /\ Render
  \/ gridDeps # <<FALSE>> /\ FlushEffects
  \/ ~InFlush /\ FrameBegin
  \/ FrameDecide
  \/ FrameEnd

SpecGrid == Init /\ [][NextGrid]_vars

(* ------------------------------- teardown ------------------------------ *)
\* the provider unmounts: the cleanup of the init effect releases the
\* context; it cancels no frame, and the refs of layers and tickers stay
Teardown ==
  /\ fpc = "idle"
  /\ ctxAvail
  /\ ctxAvail' = FALSE
  /\ KidHist("teardown")
  /\ UNCHANGED <<reactVars, envDpr, kidVars, regVars, mats>>
  /\ UNCHANGED <<rafPending, rafCount, rafDpr, running, dirty>>
  /\ UNCHANGED <<canvasWH, ctxT, ctxStack, fpc, need, gestureVars>>

\* registrations, their unregister functions (the cleanups of the children
\* run before or after the cleanup of the provider) and scheduleRedraw on a
\* provider that is torn down at some point; nothing renders afterwards
NextTeardown ==
  \/ registerLayer(0, TRUE, "world")
  \/ registerTicker
  \/ \E id \in 1..MaxId : unregisterLayer(id)
  \/ \E id \in 1..MaxId : unregisterTicker(id)
  \/ ScheduleRedrawCall
  \/ Teardown
  \/ FrameSteps({[res |-> "true", call |-> NoCall], [res |-> "false", call |-> NoCall]}, {"ok"})

\* the browser runs every frame callback that was requested
SpecTeardown == Init /\ [][NextTeardown]_vars /\ WF_vars(FrameBegin)

(* -------------------------------- claims ------------------------------ *)
Range(seq) == {seq[i] : i \in 1..Len(seq)}

\* the layers drawn in the frame are the layers visible at its redraw, each once
DrewAllVisible ==
  /\ Range(Ids(frame.drawn)) = Range(frame.l0)
  /\ Len(frame.drawn) = Len(frame.l0)

\* C1: from an idle provider, one state-mutating call is followed by exactly
\* one redraw: while that call is the only one since the provider was idle,
\* the loop has redrawn at most once.
C1_OneRedrawPerMutation == c1.phase = "one" => c1.redraws <= 1

\* C2: every redraw frame sets, for the world-space layers, a transform that
\* is the device scale composed with the world of every view mutation called
\* before the frame began.
C2_FrameDrawsCalledView ==
  frame.drew => \E d \in DprSet : frame.m = mul(Dev(d), frame.want)

\* C3: after every gesture handled by PanZoomControls the magnitude of the
\* world scale (of the world that the calls made so far produce) lies within
\* [minScale, maxScale].
C3_ScaleWithinBounds ==
  /\ RLe(minScale, getScale(Intended))
  /\ RLe(getScale(Intended), maxScale)

\* C4: the layers drawn in a frame are in ascending z, and layers of equal z
\* in the order of their registration (ascending id).
C4_DrawOrder ==
  \A i, j \in 1..Len(frame.drawn) :
    i < j => \/ frame.drawn[i].z < frame.drawn[j].z
             \/ /\ frame.drawn[i].z = frame.drawn[j].z
                /\ frame.drawn[i].id < frame.drawn[j].id

C4_Witness ==
  /\ frame.done /\ frame.drew
  /\ \E i, j \in 1..Len(frame.drawn) :
       i < j /\ frame.drawn[i].z = frame.drawn[j].z
  /\ \E i, j \in 1..Len(frame.drawn) :
       i < j /\ frame.drawn[i].id > frame.drawn[j].id

Threw(res) == res \in {"throw", "saveThrow"}

\* C5: in a frame in which a ticker or a draw callback throws, every ticker
\* registered at the start is invoked, every visible layer is drawn under its
\* transform (deviceScale composed with world for a world-space layer, the
\* device scale for a screen-space layer), and the frame redraws exactly when
\* the dirty flag was set or a ticker returned true.
C5_ThrowIsIsolated ==
  (/\ frame.done
   /\ \/ \E i \in 1..Len(frame.ticks) : frame.ticks[i].res = "throw"
      \/ \E i \in 1..Len(frame.drawn) : Threw(frame.drawn[i].res))
  => /\ \A i \in 1..Len(frame.drawn) :
          frame.drawn[i].t = IF frame.drawn[i].space = "screen"
                             THEN Dev(frame.sdpr) ELSE frame.m
     /\ frame.drew => DrewAllVisible

\* C6: a frame in which a ticker returned true clears and redraws every
\* visible layer and requests the next frame.
C6_TickerTrueRedraws ==
  (frame.done /\ \E i \in 1..Len(frame.ticks) : frame.ticks[i].res = "true")
  => /\ frame.drew
     /\ DrewAllVisible
     /\ rafPending /\ running

C6_Witness ==
  /\ frame.done /\ ~frame.dirty0 /\ ~dirty
  /\ \E i \in 1..Len(frame.ticks) : frame.ticks[i].res = "true"
  /\ \A i \in 1..Len(frame.ticks) : frame.ticks[i].res # "false"
  /\ Len(frame.ticks) = Len(frame.t0)
  /\ frame.drawn # <<>>

\* C7: the tickers invoked in a frame are exactly the tickers registered
\* when the frame began, each once.
C7_TickersAreSnapshot == frame.done => Ids(frame.ticks) = frame.t0

MutOps == {"panByScreen", "zoomAtScreen", "resetView", "setWorld", "fitToRect",
           "resize", "updateDpr", "registerLayer", "unregisterLayer",
           "registerTicker", "unregisterTicker"}

C9_UnregisteredNotInvoked ==
  /\ \A i \in 1..Len(frame.drawn) : frame.drawn[i].id \notin frame.gone0
  /\ \A i \in 1..Len(frame.ticks) : frame.ticks[i].id \notin frame.gone0

C9_Witness ==
  /\ frame.done /\ frame.drew
  /\ frame.gone0 # {}
  /\ frame.drawn # <<>>
  /\ frame.ticks # <<>>

\* the world before and after the last queued updater
PrevWorld == FoldWorld(SubSeq(worldQ, 1, Len(worldQ) - 1), world)

\* C10: zoomAtScreen(cx, cy, k) on an invertible world keeps the world point
\* shown at (cx, cy) at (cx, cy) and multiplies the scale magnitude by k.
C10_ZoomAnchor ==
  lastOp = "zoomAtScreen" =>
    \A zm \in ZoomSet :
      (/\ worldQ[Len(worldQ)].m = scaleAt(zm.k, zm.k, zm.cx, zm.cy)
       /\ ~invert(PrevWorld).null)
      => LET P == apply(invert(PrevWorld).m, zm.cx, zm.cy)
         IN  /\ apply(Intended, P.x, P.y) = [x |-> zm.cx, y |-> zm.cy]
             /\ getScale(Intended) = RMul(zm.k, getScale(PrevWorld))

C10_Witness ==
  /\ lastOp = "zoomAtScreen"
  /\ ~invert(PrevWorld).null
  /\ PrevWorld.b # R(0)
  /\ Len(worldQ) >= 2

\* the world before the last two queued updaters
PrevWorld2 == FoldWorld(SubSeq(worldQ, 1, Len(worldQ) - 2), world)

IsPan(u, p) == u.kind = "mul" /\ u.m = translate(p.dx, p.dy)

\* C11: panByScreen(dx1, dy1) followed by panByScreen(dx2, dy2) gives the
\* world of the single call panByScreen(dx1 + dx2, dy1 + dy2), and a pan
\* leaves the components a, b, c, d of the world as they were.
C11_PanComposes ==
  lastOp = "panByScreen" =>
    /\ SameLinear(Intended, PrevWorld)
    /\ Len(worldQ) >= 2 =>
         \A p1, p2 \in PanSet :
           (/\ IsPan(worldQ[Len(worldQ) - 1], p1)
            /\ IsPan(worldQ[Len(worldQ)], p2))
           => Intended = Updated(panU(RAdd(p1.dx, p2.dx), RAdd(p1.dy, p2.dy)),
                                 PrevWorld2)

C11_Witness ==
  /\ lastOp = "panByScreen"
  /\ Len(worldQ) >= 2
  /\ \E p1, p2 \in PanSet :
       /\ p1 # p2
       /\ IsPan(worldQ[Len(worldQ) - 1], p1)
       /\ IsPan(worldQ[Len(worldQ)], p2)
  /\ PrevWorld2.b # R(0)

\* both calls of the scenario have been made
ScenarioDone == Intended # I /\ Intended # Panned

\* C12: from the identity on an 800 x 600 canvas, after panByScreen(100, 50)
\* and then zoomAtScreen(400, 300, 2), toScreen({x: 0, y: 0}) is (-200, -200).
C12_ScenarioToScreen ==
  ScenarioDone => toScreen([x |-> R(0), y |-> R(0)]) = [x |-> R(-200), y |-> R(-200)]

\* C13: whenever the view mutations called so far leave the world invertible,
\* the cached inverse is the inverse of the cached forward matrix, so that
\* toWorld(toScreen(P)) = P and toScreen(toWorld(P)) = P.
C13_CachedInverse ==
  ~invert(Intended).null =>
    /\ mul(mats.cssFromWorld, mats.worldFromCss) = I
    /\ mul(mats.worldFromCss, mats.cssFromWorld) = I
    /\ \A pt \in {[x |-> R(0), y |-> R(0)], [x |-> R(3), y |-> R(-2)]} :
         /\ toWorld(toScreen(pt)) = pt
         /\ toScreen(toWorld(pt)) = pt

C15_ResetToIdentity == lastOp = "resetView" => Intended = I

\* fitToRect(r, mg) was the last call
FitCalled(r, mg) ==
  /\ lastOp = "fitToRect"
  /\ worldQ[Len(worldQ)].m = fitToRectNext(r, mg)

\* r has positive width and height and the logical size exceeds 2 * mg
FitPre(r, mg) ==
  /\ RLt(r.x0, r.x1) /\ RLt(r.y0, r.y1)
  /\ RLt(RMul(R(2), mg), R(size.w)) /\ RLt(RMul(R(2), mg), R(size.h))

\* none of the three Math.max(1e-9, ...) of fitToRect replaces its argument
FitUnclamped(r, mg) ==
  LET w == RSub(r.x1, r.x0)
      h == RSub(r.y1, r.y0)
      s == RMin(RDiv(RSub(R(size.w), RMul(R(2), mg)), w),
                RDiv(RSub(R(size.h), RMul(R(2), mg)), h))
  IN  Max1e9(w) = w /\ Max1e9(h) = h /\ Max1e9(s) = s

\* next is a uniform scale and a translation that centres r, keeps its image
\* inside the canvas inset by mg and spans the inset in one dimension
Fits(next, r, mg) ==
  LET p0 == apply(next, r.x0, r.y0)
      p1 == apply(next, r.x1, r.y1)
      c == apply(next, RDiv(RAdd(r.x0, r.x1), R(2)), RDiv(RAdd(r.y0, r.y1), R(2)))
  IN  /\ next.b = R(0) /\ next.c = R(0) /\ next.a = next.d /\ next.a.n > 0
      /\ c = [x |-> Q(size.w, 2), y |-> Q(size.h, 2)]
      /\ RLe(mg, p0.x) /\ RLe(p1.x, RSub(R(size.w), mg))
      /\ RLe(mg, p0.y) /\ RLe(p1.y, RSub(R(size.h), mg))
      /\ \/ RSub(p1.x, p0.x) = RSub(R(size.w), RMul(R(2), mg))
         \/ RSub(p1.y, p0.y) = RSub(R(size.h), RMul(R(2), mg))

C17_LayerStartTransform ==
  (/\ eff = NoEff /\ dprQ = dpr /\ canvasWH = Desired(size, dpr)
   /\ \A j \in 1..Len(frame.drawn) : ~Threw(frame.drawn[j].res))
  => \A i \in 1..Len(frame.drawn) :
       frame.drawn[i].t = IF frame.drawn[i].space = "screen"
                          THEN Dev(dpr) ELSE frame.m

\* |a * d - b * c| < 1e-12
DetBelow1e12(m) ==
  TinyLinear(m) \/ Below1e12(RSub(RMul(m.a, m.d), RMul(m.b, m.c)))

\* C18: invert(m) is null exactly when |a * d - b * c| < 1e-12, and otherwise
\* a matrix n with mul(m, n) = mul(n, m) = I; m is the matrix given to
\* setWorld, and the cached inverse is replaced exactly in the second case.
C18_Invert ==
  lastOp = "setWorld" =>
    LET m == Intended
        r == invert(m)
    IN  /\ r.null <=> DetBelow1e12(m)
        /\ ~r.null => mul(m, r.m) = I /\ mul(r.m, m) = I
        /\ (~r.null /\ Len(worldQ) = 1) => mats.worldFromCss = r.m

C18_Witness ==
  /\ lastOp = "setWorld"
  /\ ~invert(Intended).null
  /\ Intended.b # R(0) /\ Intended.c # R(0) /\ Intended.e # R(0)
  /\ Intended.b # Intended.c
  /\ Len(worldQ) = 1
  /\ mul(Intended, mats.worldFromCss) = I

\* the last invertible world among acc and the worlds that the queued
\* updaters q produce from w
RECURSIVE LastInvertible(_, _, _)
LastInvertible(q, w, acc) ==
  IF q = <<>> THEN acc
  ELSE LET nw == Updated(Head(q), w)
       IN  LastInvertible(Tail(q), nw, IF invert(nw).null THEN acc ELSE nw)

\* C19: when the view mutations called so far leave a non-invertible world,
\* toScreen uses that world, toWorld uses the inverse of the last invertible
\* world, and a redraw frame still draws every visible layer.
C19_SingularWorld ==
  (invert(Intended).null /\ ~invert(world).null) =>
    /\ mats.cssFromWorld = Intended
    /\ mats.worldFromCss = invert(LastInvertible(worldQ, world, world)).m
    /\ (frame.done /\ frame.drew) => DrewAllVisible

\* the subpaths of a path start at its moveTo calls
Subpaths(path) == Cardinality({i \in 1..Len(path) : path[i].op = "M"})
\* a line segment from a point left of x = 0 to a point right of it, or back
Crosses(path) ==
  \E i \in 2..Len(path) :
    /\ path[i].op = "L"
    /\ \/ path[i - 1].x.n < 0 /\ path[i].x.n > 0
       \/ path[i - 1].x.n > 0 /\ path[i].x.n < 0
WithinYLimit(path, yLimit) == \A i \in 1..Len(path) : RLe(RAbs(path[i].y), yLimit)

\* C20: the path that buildPath makes for f(x) = 1/x over a range with 0
\* inside has at least two subpaths, no segment from one side of x = 0 to
\* the other, and no point with |y| > yLimit
C20_SingularityBreaksPath ==
  \A i \in 1..Len(frame.drawn) :
    LET p == frame.drawn[i]
    IN  (p.rebuilt /\ p.x0.n < 0 /\ p.x1.n > 0) =>
          /\ Subpaths(p.path) >= 2
          /\ ~Crosses(p.path)
          /\ WithinYLimit(p.path, p.pr.yLimit)

\* the rebuild rule as stated: reuse when the range lies in the cached range
\* and the scale is within a quarter of the cached scale of it
StatedRebuild(cache, x0, x1, wpp) ==
  \/ cache = <<>>
  \/ ~(/\ RLe(cache[1].range.x0, x0) /\ RLe(x1, cache[1].range.x1)
       /\ RLe(RAbs(RSub(cache[1].worldPerPx, wpp)), RMul(cache[1].worldPerPx, Q(1, 4))))

\* C21: a draw of FunctionPlot reuses the cached path only if the requested
\* range lies in the cached range and the scale differs from the cached
\* scale by at most a quarter of the cached scale, and rebuilds otherwise
C21_CacheReuse ==
  \A i \in 1..Len(frame.drawn) :
    LET p == frame.drawn[i]
    IN  p.rebuilt = StatedRebuild(p.before, p.x0, p.x1, p.wpp)

\* C22: while buildPath runs, addSegment is never called deeper than
\* maxDepth and the path never gets more than maxPoints points
C22_Budgets ==
  \A i \in 1..Len(frame.drawn) :
    LET p == frame.drawn[i]
    IN  p.rebuilt =>
          /\ p.deep <= p.pr.maxDepth
          /\ p.points <= p.pr.maxPoints
          /\ Len(p.path) = p.points

\* the text for the reduced fraction n/d of pi, as stated
StatedRadian(t) ==
  LET sign == IF t.n < 0 THEN <<"-">> ELSE <<>>
      N == Abs(t.n)
  IN  IF N = 0 THEN <<"0">>
      ELSE IF t.d = 1 THEN sign \o (IF N = 1 THEN <<>> ELSE NumStr(N)) \o <<"π">>
      ELSE sign \o (IF N = 1 THEN <<>> ELSE NumStr(N)) \o <<"π", "/">> \o NumStr(t.d)

\* C23: fmtRadian((n/d) pi) is the fraction reduced by its greatest common
\* divisor: "0", the numerator and "π", or the numerator, "π/" and the
\* denominator, a numerator of 1 left out and "-" in front of negative values
C23_FmtRadian ==
  /\ label # <<>> => label[1].text = StatedRadian(label[1].t)
  /\ fmtRadian(R(1)) = <<"π">>
  /\ fmtRadian(Q(1, 2)) = <<"π", "/", "2">>
  /\ fmtRadian(Q(-3, 2)) = <<"-", "3", "π", "/", "2">>
  /\ fmtRadian(R(2)) = <<"2", "π">>

C23_Witness ==
  /\ label # <<>>
  /\ label[1].t = Q(-6, 4)
  /\ label[1].text = <<"-", "3", "π", "/", "2">>
(* C24: once the effects of a commit have run the backing store is
   max(1, round(size * dpr)) in each dimension; a step that changes the
   backing store leaves the logical size alone, sets the dirty flag and
   leaves the loop running with a frame requested *)
StatedBacking(sz, d) ==
  LET dw == RRound(RMul(R(sz.w), d))
      dh == RRound(RMul(R(sz.h), d))
  IN  [w |-> IF dw >= 1 THEN dw ELSE 1, h |-> IF dh >= 1 THEN dh ELSE 1]

C24_BackingStore ==
  /\ [](eff = NoEff /\ ctxAvail => canvasWH = StatedBacking(size, dpr))
  /\ [][canvasWH' # canvasWH =>
         /\ canvasWH' = StatedBacking(size', dpr')
         /\ size' = size
         /\ dirty' /\ running' /\ rafCount' = 1]_vars

C24_Witness ==
  /\ eff = NoEff /\ lastOp = "step"
  /\ size = [w |-> 800, h |-> 600] /\ dpr = R(2)
  /\ canvasWH = [w |-> 1600, h |-> 1200]
  /\ dirty /\ running /\ rafCount = 1

(* C25: the auto-centering effect calls resetView() only when the world
   is unscaled and unrotated and the origin has not been observed within
   half a pixel of the centre of the canvas, and never once it has *)
C25_AutoCenter ==
  [][lastOp' = "autoCenter:resetView" =>
       unscaled /\ ~didAutoCenterRef /\ ~nearCenter]_vars

(* C26: every vertex (x, y) that moveTo or lineTo adds to the path of a
   FunctionPlot has y = fn(x) valid, so no subpath starts or ends at the x
   of a midpoint where fn is invalid *)
C26_VerticesOnGraph ==
  \A i \in 1..Len(frame.drawn) :
    LET p == frame.drawn[i]
    IN  \A k \in 1..Len(p.path) :
          safeY(p.from.fn, p.path[k].x, p.from.yLimit) = <<p.path[k].y>>

(* C27: the path that a draw of FunctionPlot strokes was built from the
   fn, yLimit, maxDepth and maxPoints the component has at that draw: a
   path cached under earlier props is never stroked *)
C27_PathFromCurrentProps ==
  \A i \in 1..Len(frame.drawn) : frame.drawn[i].from = frame.drawn[i].pr

(* C28: in a frame that draws, the device-pixel-ratio that scales the
   screen-space layers is the provider's dpr and is the one inside the
   composite transform of the world-space layers of that frame *)
C28_OneDprPerFrame ==
  frame.drew =>
    /\ frame.sdpr = dpr
    /\ frame.m = mul(Dev(frame.sdpr), mats.cssFromWorld)

(* C29: at most one animation-frame callback is pending, and runningRef is
   true exactly when a frame callback is pending or executing *)
C29_OneFramePending ==
  /\ rafCount <= 1
  /\ rafPending = (rafCount = 1)
  /\ running = (rafCount = 1 \/ fpc # "idle")

C29_Witness ==
  /\ lastOp = "scheduleRedraw" /\ ops >= 3
  /\ layers # <<>> /\ tickers # <<>>
  /\ running /\ rafCount = 1

(* C30: once the context is released no step invokes a ticker or the draw
   of a layer: a frame callback that runs leaves the loop stopped with no
   frame requested by it; and the loop comes to rest, stopped with no frame
   requested, after the last call made on the provider *)
C30_NoFrameAfterTeardown ==
  /\ [][~ctxAvail =>
          /\ fpc' = "idle" /\ frame'.ticks = <<>> /\ frame'.drawn = <<>>
          /\ ~frame'.drew
          /\ (rafCount' < rafCount => ~running' /\ rafCount' = 0)]_vars
  /\ (~ctxAvail ~> (~running /\ rafCount = 0))

C30_Witness ==
  /\ ~ctxAvail /\ lastOp = "step"
  /\ layers # <<>> /\ tickers # <<>> /\ ops >= 3
  /\ ~running /\ rafCount = 0 /\ dirty

====
